---------------------------- MODULE Spec2Model ----------------------------
(***************************************************************************)
(* Model of the calibration mathematics of src/amit/adjustments.py and of  *)
(* the multi-camera driver at the bottom of src/amit/clean_up.py.          *)
(*                                                                         *)
(* Numbers are exact rationals (numerator, positive denominator, lowest    *)
(* terms) with one extra value NaN; floating point rounding is not         *)
(* modelled.  numpy arrays are records [shape, data]: shape is the tuple   *)
(* numpy reports, data the rows.  The outcome of a call is a record        *)
(* [status, exc, value]: a returned value or a raised exception.           *)
(***************************************************************************)
EXTENDS Integers, Sequences, FiniteSets, TLC

VARIABLES
    object_pc,       \* calculate_pc_adjustments_by_pcs: the known cloud
    captured_pc,     \* calculate_pc_adjustments_by_pcs: the captured cloud
    object_frame,    \* the frame handed to the frame functions
    captured_frame,  \* calculate_pc_adjustments_by_frames: the second frame
    intrinsics,      \* rs2.intrinsics: width, height, ppx, ppy, fx, fy
    edge,            \* find_edge_mean: the edge tag of the call
    shape,           \* average_z_frame / ..._by_frames: the shape tag
    surface,         \* generate_frame_flat_surface: width, height, distance
    pc,              \* convert_pc_to_frame: the point cloud
    called,          \* the function that was called ("none" before the call)
    result,          \* the outcome of that call
    workers,         \* __main__: state of the pool task of each camera
    results,         \* __main__: what each finished task returned
    completed,       \* __main__: cameras in the order their tasks finished
    pcs,             \* __main__: outcome of pool.map
    saved            \* __main__: the argument save_file was called with

vars == <<object_pc, captured_pc, object_frame, captured_frame, intrinsics,
          edge, shape, surface, pc, called, result,
          workers, results, completed, pcs, saved>>

---------------------------------------------------------------------------
(* Exact arithmetic standing for Python / numpy floats.                    *)

Abs(x) == IF x < 0 THEN -x ELSE x

RECURSIVE GCD(_, _)
GCD(a, b) == IF b = 0 THEN a ELSE GCD(b, a % b)

NaN == [nan |-> TRUE, n |-> 0, d |-> 1]

\* n/d, d # 0, in lowest terms with a positive denominator
Rat(n, d) ==
    LET s == IF d < 0 THEN -1 ELSE 1
        g == GCD(Abs(n), Abs(d))
    IN  [nan |-> FALSE, n |-> (s * n) \div g, d |-> (s * d) \div g]

F(k) == [nan |-> FALSE, n |-> k, d |-> 1]

FAdd(a, b) == IF a.nan \/ b.nan THEN NaN ELSE Rat(a.n * b.d + b.n * a.d, a.d * b.d)
FSub(a, b) == IF a.nan \/ b.nan THEN NaN ELSE Rat(a.n * b.d - b.n * a.d, a.d * b.d)
FMul(a, b) == IF a.nan \/ b.nan THEN NaN ELSE Rat(a.n * b.n, a.d * b.d)
\* the divisors of the program are 2, a length, a focal length or a depth
\* z # 0; 0/0 is NaN as in IEEE arithmetic
FDiv(a, b) == IF a.nan \/ b.nan \/ b.n = 0 THEN NaN ELSE Rat(a.n * b.d, a.d * b.n)
FLess(a, b) == ~a.nan /\ ~b.nan /\ a.n * b.d < b.n * a.d
IsZero(a) == ~a.nan /\ a.n = 0

\* Python's min(a, b): b when b < a, else a
PyMin(a, b) == IF FLess(b, a) THEN b ELSE a
\* Python's int(x): truncation towards zero
PyInt(a) == IF a.n >= 0 THEN a.n \div a.d ELSE -((-a.n) \div a.d)
\* Python 3's round(x): to the nearest integer, ties to the even one
PyRound(a) ==
    LET fl  == (2 * a.n + a.d) \div (2 * a.d)
        tie == (2 * a.n + a.d) % (2 * a.d) = 0
    IN  IF tie /\ fl % 2 = 1 THEN fl - 1 ELSE fl

Ok(v) == [status |-> "ok", exc |-> "", value |-> v]
Raise(e) == [status |-> "raise", exc |-> e, value |-> <<>>]
NoResult == [status |-> "none", exc |-> "", value |-> <<>>]

\* numpy's np.average(vals) of a list of numbers: NaN for the empty list
RECURSIVE SumSeq(_)
SumSeq(vals) == IF vals = <<>> THEN F(0) ELSE FAdd(vals[1], SumSeq(Tail(vals)))

\* the empty list averaged to 0
np_average_empty_zero(vals) == IF vals = <<>> THEN F(0) ELSE FDiv(SumSeq(vals), F(Len(vals)))

np_average(vals) == FDiv(SumSeq(vals), F(Len(vals)))

\* np.min / np.max of column c of the rows, folded in row order
RECURSIVE np_min(_, _, _, _)
np_min(data, c, k, acc) ==
    IF k > Len(data) THEN acc
    ELSE np_min(data, c, k + 1, IF FLess(data[k][c], acc) THEN data[k][c] ELSE acc)

RECURSIVE np_max(_, _, _, _)
np_max(data, c, k, acc) ==
    IF k > Len(data) THEN acc
    ELSE np_max(data, c, k + 1, IF FLess(acc, data[k][c]) THEN data[k][c] ELSE acc)

Column(data, c) == [k \in 1..Len(data) |-> data[k][c]]

---------------------------------------------------------------------------
(* calculate_pc_adjustments_by_pcs                                         *)

mins(a) == [x \in 1..3 |-> np_min(a.data, x, 2, a.data[1][x])]
maxs(a) == [x \in 1..3 |-> np_max(a.data, x, 2, a.data[1][x])]

\* x_shift with the left-edge term subtracted instead of added
pcs_x_shift_minus(o, c) ==
    FDiv(FSub(FSub(maxs(o)[1], maxs(c)[1]), FSub(mins(o)[1], mins(c)[1])), F(2))

pcs_x_shift(o, c) ==
    FDiv(FAdd(FSub(maxs(o)[1], maxs(c)[1]), FSub(mins(o)[1], mins(c)[1])), F(2))

\* y_shift taking the bottom extent of the captured cloud
pcs_y_shift_bottom(o, c) == FSub(maxs(o)[2], mins(c)[2])

pcs_y_shift(o, c) == FSub(maxs(o)[2], maxs(c)[2])

pcs_z_shift(o, c) ==
    FSub(np_average(Column(o.data, 3)), np_average(Column(c.data, 3)))

calculate_pc_adjustments_by_pcs(o, c) ==
    IF Len(o.shape) # 2 \/ Len(c.shape) # 2 THEN Raise("AssertionError")
    ELSE IF o.shape[2] # 3 \/ c.shape[2] # 3 THEN Raise("AssertionError")
    \* np.min over axis 0 of a zero-size array has no identity: ValueError
    ELSE IF o.shape[1] = 0 \/ c.shape[1] = 0 THEN Raise("ValueError")
    ELSE Ok(<<pcs_x_shift(o, c), pcs_y_shift(o, c), pcs_z_shift(o, c)>>)

---------------------------------------------------------------------------
(* Inputs of the point cloud specification                                 *)

MaxPoints == 2

Array(rows, width) == [shape |-> <<Len(rows), width>>, data |-> rows]

Pt(x, y, z) == <<F(x), F(y), F(z)>>

Points == {Pt(-1, 0, 1), Pt(0, 1, 2), Pt(1, 0, 1), Pt(1, 1, 3), Pt(0, 0, 0), Pt(-1, 1, 2)}

SeqsUpTo(S, n) == UNION {[1..k -> S] : k \in 0..n}

\* a 1-D array and an N x 2 array: rejected by the assertions
Malformed == {[shape |-> <<2>>, data |-> <<F(0), F(1)>>],
              Array(<< <<F(0), F(1)>> >>, 2)}

Clouds == {Array(s, 3) : s \in SeqsUpTo(Points, MaxPoints)} \cup Malformed

\* x-extent [-1, 1] against x-extent [-0.8, 1.2]
ExampleObject == Array(<<Pt(-1, 0, 1), Pt(1, 0, 1)>>, 3)
ExampleCaptured == Array(<< <<Rat(-4, 5), F(0), F(1)>>, <<Rat(6, 5), F(0), F(1)>> >>, 3)

NoArray == [shape |-> <<0, 0>>, data |-> <<>>]
NoIntrinsics == [width |-> 0, height |-> 0, ppx |-> F(0), ppy |-> F(0), fx |-> F(1), fy |-> F(1)]
NoSurface == [width |-> F(0), height |-> F(0), distance |-> F(0)]

PcsIdle == object_pc = NoArray /\ captured_pc = NoArray
FramesIdle ==
    /\ object_frame = NoArray /\ captured_frame = NoArray
    /\ intrinsics = NoIntrinsics /\ edge = "" /\ shape = ""
SynthIdle == surface = NoSurface /\ pc = NoArray
PoolIdle ==
    /\ workers = <<>> /\ results = <<>> /\ completed = <<>>
    /\ pcs = NoResult /\ saved = NoResult

InitPcs ==
    /\ \/ object_pc \in Clouds /\ captured_pc \in Clouds
       \/ object_pc = ExampleObject /\ captured_pc = ExampleCaptured
    /\ FramesIdle /\ SynthIdle /\ PoolIdle
    /\ called = "none" /\ result = NoResult

call_calculate_pc_adjustments_by_pcs ==
    /\ called = "none"
    /\ called' = "calculate_pc_adjustments_by_pcs"
    /\ result' = calculate_pc_adjustments_by_pcs(object_pc, captured_pc)
    /\ UNCHANGED <<object_pc, captured_pc, object_frame, captured_frame, intrinsics,
                   edge, shape, surface, pc, workers, results, completed, pcs, saved>>

NextPcs == call_calculate_pc_adjustments_by_pcs

SpecPcs == InitPcs /\ [][NextPcs]_vars

---------------------------------------------------------------------------
(* Properties of calculate_pc_adjustments_by_pcs                           *)

WellFormedCloud(a) == Len(a.shape) = 2 /\ a.shape[2] = 3

CoordSet(a, x) == {a.data[k][x] : k \in 1..Len(a.data)}
MaxOf(S) == CHOOSE m \in S : \A y \in S : ~FLess(m, y)
MinOf(S) == CHOOSE m \in S : \A y \in S : ~FLess(y, m)

RECURSIVE SumUpTo(_, _)
SumUpTo(vals, k) == IF k = 0 THEN F(0) ELSE FAdd(SumUpTo(vals, k - 1), vals[k])

MeanZ(a) == FDiv(SumUpTo(Column(a.data, 3), Len(a.data)), F(Len(a.data)))

\* the cloud with rows k and k+1 exchanged
SwapRows(a, k) ==
    [a EXCEPT !.data = [i \in 1..Len(a.data) |->
        IF i = k THEN a.data[k + 1] ELSE IF i = k + 1 THEN a.data[k] ELSE a.data[i]]]

PcsCalled == called = "calculate_pc_adjustments_by_pcs"

\* C1: for non-empty N x 3 clouds calculate_pc_adjustments_by_pcs returns
\* x_shift = ((max x obj - max x cap) + (min x obj - min x cap)) / 2,
\* y_shift = max y obj - max y cap, z_shift = mean z obj - mean z cap; the
\* extents [-1, 1] against [-0.8, 1.2] give x_shift = -0.2; exchanging two
\* neighbouring points of either cloud (hence any reordering) leaves the
\* result as it is.
C1_PcsShiftFormula ==
    (/\ PcsCalled
     /\ WellFormedCloud(object_pc) /\ WellFormedCloud(captured_pc)
     /\ object_pc.shape[1] >= 1 /\ captured_pc.shape[1] >= 1)
    => /\ result = Ok(<<
              FDiv(FAdd(FSub(MaxOf(CoordSet(object_pc, 1)), MaxOf(CoordSet(captured_pc, 1))),
                        FSub(MinOf(CoordSet(object_pc, 1)), MinOf(CoordSet(captured_pc, 1)))),
                   F(2)),
              FSub(MaxOf(CoordSet(object_pc, 2)), MaxOf(CoordSet(captured_pc, 2))),
              FSub(MeanZ(object_pc), MeanZ(captured_pc)) >>)
       /\ (object_pc = ExampleObject /\ captured_pc = ExampleCaptured)
            => result.value[1] = Rat(-1, 5)
       /\ \A k \in 1..(Len(object_pc.data) - 1) :
            calculate_pc_adjustments_by_pcs(SwapRows(object_pc, k), captured_pc) = result
       /\ \A k \in 1..(Len(captured_pc.data) - 1) :
            calculate_pc_adjustments_by_pcs(object_pc, SwapRows(captured_pc, k)) = result

C1_Witness ==
    /\ PcsCalled
    /\ object_pc = ExampleObject /\ captured_pc = ExampleCaptured
    /\ result.status = "ok" /\ result.value[1] = Rat(-1, 5)

ZeroShift == <<F(0), F(0), F(0)>>

---------------------------------------------------------------------------
(* The camera model of librealsense for an undistorted image, called at    *)
(* lines 74, 80, 86, 92 (deprojection) and 113, 163 (projection).          *)

\* rs2_deproject_pixel_to_point(intrinsics, [px, py], depth) -> (x, y, z)
rs2_deproject_pixel_to_point(intr, pixel, depth) ==
    LET x == FDiv(FSub(F(pixel[1]), intr.ppx), intr.fx)
        y == FDiv(FSub(F(pixel[2]), intr.ppy), intr.fy)
    IN  <<FMul(depth, x), FMul(depth, y), depth>>

\* rs2_project_point_to_pixel(intrinsics, [x, y, z]) -> (px, py)
rs2_project_point_to_pixel(intr, point) ==
    LET x == FDiv(point[1], point[3])
        y == FDiv(point[2], point[3])
    IN  <<FAdd(FMul(x, intr.fx), intr.ppx), FAdd(FMul(y, intr.fy), intr.ppy)>>

---------------------------------------------------------------------------
(* find_edge_mean                                                          *)

EdgeTags == {"right", "left", "up", "down"}

\* frame[i][j] with the 0-based indices of the code
Cell(frame, i, j) == frame.data[i + 1][j + 1]

\* every inner loop runs upwards
AscendingAlways(e) == TRUE

\* the inner loop runs upwards (range(n)) for right and up, downwards
\* (range(n - 1, -1, -1)) for left and down
Ascending(e) == e \in {"right", "up"}

\* right / left: the outer loop is over the rows, the inner over the columns
ByRows(e) == e \in {"right", "left"}

\* the inner loop from index k on: the sample of the first nonzero cell,
\* then break; no sample when the loop runs out
RECURSIVE inner_loop(_, _, _, _, _)
inner_loop(frame, e, intr, line, k) ==
    LET i == IF ByRows(e) THEN line ELSE k
        j == IF ByRows(e) THEN k ELSE line
        n == IF ByRows(e) THEN frame.shape[2] ELSE frame.shape[1]
    IN  IF k < 0 \/ k >= n THEN <<>>
        ELSE IF Cell(frame, i, j) # 0
        THEN <<rs2_deproject_pixel_to_point(intr, <<j, i>>, F(Cell(frame, i, j)))
                   [IF ByRows(e) THEN 1 ELSE 2]>>
        ELSE inner_loop(frame, e, intr, line, IF Ascending(e) THEN k + 1 ELSE k - 1)

\* the outer loop from index line on: vals in the order they are appended
RECURSIVE outer_loop(_, _, _, _)
outer_loop(frame, e, intr, line) ==
    LET lines == IF ByRows(e) THEN frame.shape[1] ELSE frame.shape[2]
        n     == IF ByRows(e) THEN frame.shape[2] ELSE frame.shape[1]
    IN  IF line >= lines THEN <<>>
        ELSE inner_loop(frame, e, intr, line, IF Ascending(e) THEN 0 ELSE n - 1)
             \o outer_loop(frame, e, intr, line + 1)

find_edge_mean(frame, e, intr) ==
    IF Len(frame.shape) # 2 THEN Raise("AssertionError")
    ELSE IF e \notin EdgeTags THEN Raise("Exception")
    ELSE Ok(<<np_average(outer_loop(frame, e, intr, 0))>>)

---------------------------------------------------------------------------
(* average_z_frame                                                         *)

ShapeTags == {"flat", "cylinder"}

\* the cells of the frame row by row
RECURSIVE flat_vals(_, _)
flat_vals(frame, i) ==
    IF i >= frame.shape[1] THEN <<>>
    ELSE [j \in 1..frame.shape[2] |-> F(frame.data[i + 1][j])] \o flat_vals(frame, i + 1)

\* The cylinder branch with frame.shape[1] / 2 and (left + right) / 2 read
\* as floor divisions.  The loop over j: <<left, right>> after it.
RECURSIVE cylinder_scan(_, _, _, _, _)
cylinder_scan(frame, i, j, left, right) ==
    IF j >= frame.shape[2] \div 2 THEN <<left, right>>
    ELSE IF Cell(frame, i, j) # 0 /\ left = -1
         THEN cylinder_scan(frame, i, j + 1, j, right)
    ELSE IF Cell(frame, i, frame.shape[2] - 1 - j) # 0 /\ right = -1
         THEN cylinder_scan(frame, i, j + 1, left, j)
    ELSE cylinder_scan(frame, i, j + 1, left, right)

\* frame[i][k] for a Python index k, negative ones counted from the end
PyIndex(frame, i, k) == Cell(frame, i, IF k < 0 THEN k + frame.shape[2] ELSE k)

RECURSIVE cylinder_vals(_, _)
cylinder_vals(frame, i) ==
    IF i >= frame.shape[1] THEN <<>>
    ELSE LET lr == cylinder_scan(frame, i, 0, -1, -1)
         IN  <<F(PyIndex(frame, i, (lr[1] + lr[2]) \div 2))>> \o cylinder_vals(frame, i + 1)

average_z_frame_floor_division(frame) == Ok(<<np_average(cylinder_vals(frame, 0))>>)

\* an unknown shape tag treated as the default, flat
average_z_frame_default_flat(frame, s) ==
    IF Len(frame.shape) # 2 THEN Raise("AssertionError")
    ELSE IF s = "cylinder"
         THEN IF frame.shape[1] >= 1 THEN Raise("TypeError")
              ELSE Ok(<<np_average(<<>>)>>)
    ELSE Ok(<<np_average(flat_vals(frame, 0))>>)

average_z_frame(frame, s) ==
    IF Len(frame.shape) # 2 THEN Raise("AssertionError")
    ELSE IF s = "flat" THEN Ok(<<np_average(flat_vals(frame, 0))>>)
    ELSE IF s = "cylinder"
         \* Python 3: frame.shape[1] / 2 is a float and range() rejects it,
         \* on the first row
         THEN IF frame.shape[1] >= 1 THEN Raise("TypeError")
              ELSE Ok(<<np_average(<<>>)>>)
    ELSE Raise("Exception")

---------------------------------------------------------------------------
(* calculate_pc_adjustments_by_frames                                      *)

\* find_edge_mean for a tag of EdgeTags returns; its number
edge_mean(frame, e, intr) == find_edge_mean(frame, e, intr).value[1]

calculate_pc_adjustments_by_frames(o, c, intr, s) ==
    IF Len(o.shape) # 2 \/ Len(c.shape) # 2 THEN Raise("AssertionError")
    ELSE
      LET x_shift == FDiv(FAdd(FSub(edge_mean(o, "right", intr), edge_mean(c, "right", intr)),
                               FSub(edge_mean(o, "left", intr), edge_mean(c, "left", intr))),
                          F(2))
          y_shift == FSub(edge_mean(o, "up", intr), edge_mean(c, "up", intr))
          z_obj == average_z_frame(o, s)
          z_cap == average_z_frame(c, s)
      IN  IF z_obj.status = "raise" THEN z_obj
          ELSE IF z_cap.status = "raise" THEN z_cap
          ELSE Ok(<<x_shift, y_shift, FSub(z_obj.value[1], z_cap.value[1])>>)

---------------------------------------------------------------------------
(* Inputs and calls of the frame specification                             *)

MaxRows == 2
MaxCols == 2

DepthValues == {0, 1, 2}

Frames ==
    UNION {{[shape |-> <<h, w>>, data |-> d] : d \in [1..h -> [1..w -> DepthValues]]} :
           <<h, w>> \in (1..MaxRows) \X (1..MaxCols)}

\* a 1-D array: rejected by the assertions
FlatArray == [shape |-> <<2>>, data |-> <<1, 2>>]

\* the frame seen in a mirror: the columns reversed
Mirror(f) ==
    [f EXCEPT !.data = [i \in 1..f.shape[1] |->
                          [j \in 1..f.shape[2] |-> f.data[i][f.shape[2] + 1 - j]]]]

CapturedOf(f) == IF Len(f.shape) = 2 THEN {f, Mirror(f)} ELSE {f}

FrameIntrinsics ==
    {[width |-> MaxCols, height |-> MaxRows, ppx |-> F(0), ppy |-> F(0), fx |-> F(1), fy |-> F(1)],
     [width |-> MaxCols, height |-> MaxRows, ppx |-> Rat(1, 2), ppy |-> F(1), fx |-> F(2), fy |-> F(3)]}

EdgeInputs == EdgeTags \cup {"top"}
ShapeInputs == ShapeTags \cup {"sphere"}

InitFrames ==
    /\ object_frame \in Frames \cup {FlatArray}
    /\ captured_frame \in CapturedOf(object_frame)
    /\ intrinsics \in FrameIntrinsics
    /\ edge = "" /\ shape = ""
    /\ PcsIdle /\ SynthIdle /\ PoolIdle
    /\ called = "none" /\ result = NoResult

call_find_edge_mean ==
    /\ called = "none"
    /\ \E e \in EdgeInputs :
         /\ edge' = e
         /\ result' = find_edge_mean(object_frame, e, intrinsics)
    /\ called' = "find_edge_mean"
    /\ UNCHANGED <<object_pc, captured_pc, object_frame, captured_frame, intrinsics,
                   shape, surface, pc, workers, results, completed, pcs, saved>>

call_average_z_frame ==
    /\ called = "none"
    /\ \E s \in ShapeInputs :
         /\ shape' = s
         /\ result' = average_z_frame(object_frame, s)
    /\ called' = "average_z_frame"
    /\ UNCHANGED <<object_pc, captured_pc, object_frame, captured_frame, intrinsics,
                   edge, surface, pc, workers, results, completed, pcs, saved>>

call_calculate_pc_adjustments_by_frames ==
    /\ called = "none"
    /\ \E s \in ShapeInputs :
         /\ shape' = s
         /\ result' = calculate_pc_adjustments_by_frames(object_frame, captured_frame,
                                                         intrinsics, s)
    /\ called' = "calculate_pc_adjustments_by_frames"
    /\ UNCHANGED <<object_pc, captured_pc, object_frame, captured_frame, intrinsics,
                   edge, surface, pc, workers, results, completed, pcs, saved>>

NextFrames ==
    \/ call_find_edge_mean
    \/ call_average_z_frame
    \/ call_calculate_pc_adjustments_by_frames

SpecFrames == InitFrames /\ [][NextFrames]_vars

---------------------------------------------------------------------------
(* Properties of find_edge_mean                                            *)

Rows(f) == 0..(f.shape[1] - 1)
Cols(f) == 0..(f.shape[2] - 1)

SetMin(S) == CHOOSE m \in S : \A y \in S : m <= y
SetMax(S) == CHOOSE m \in S : \A y \in S : m >= y

RECURSIVE SumOver(_, _)
SumOver(fn, S) ==
    IF S = {} THEN F(0)
    ELSE LET x == CHOOSE x \in S : TRUE IN FAdd(fn[x], SumOver(fn, S \ {x}))

\* the mean of fn over S; undefined (NaN) when S is empty
MeanOver(fn, S) == IF S = {} THEN NaN ELSE FDiv(SumOver(fn, S), F(Cardinality(S)))

NonzeroCols(f, i) == {j \in Cols(f) : Cell(f, i, j) # 0}
NonzeroRows(f, j) == {i \in Rows(f) : Cell(f, i, j) # 0}

\* the scan lines that hold a nonzero cell
ScanLines(f, e) ==
    IF e \in {"right", "left"} THEN {i \in Rows(f) : NonzeroCols(f, i) # {}}
    ELSE {j \in Cols(f) : NonzeroRows(f, j) # {}}

\* the sample the claim gives scan line l
Sample(f, e, intr, l) ==
    LET k == CASE e = "right" -> SetMin(NonzeroCols(f, l))
               [] e = "left"  -> SetMax(NonzeroCols(f, l))
               [] e = "up"    -> SetMin(NonzeroRows(f, l))
               [] e = "down"  -> SetMax(NonzeroRows(f, l))
    IN  IF e \in {"right", "left"}
        THEN rs2_deproject_pixel_to_point(intr, <<k, l>>, F(Cell(f, l, k)))[1]
        ELSE rs2_deproject_pixel_to_point(intr, <<l, k>>, F(Cell(f, k, l)))[2]

EdgeCalled == called = "find_edge_mean" /\ Len(object_frame.shape) = 2

\* C3: find_edge_mean returns the mean of exactly one sample per scan line
\* that holds a nonzero cell: for right the x of the deprojection at the
\* smallest nonzero column of the row, for left at the largest, for up the
\* y of the deprojection at the smallest nonzero row of the column, for
\* down at the largest; all-zero lines add no sample and do not count in
\* the divisor.
C3_EdgeMeanSamples ==
    (EdgeCalled /\ edge \in EdgeTags)
    => /\ Len(outer_loop(object_frame, edge, intrinsics, 0))
            = Cardinality(ScanLines(object_frame, edge))
       /\ result = Ok(<<MeanOver([l \in ScanLines(object_frame, edge) |->
                                    Sample(object_frame, edge, intrinsics, l)],
                                 ScanLines(object_frame, edge))>>)

\* a frame with an all-zero row, and a row whose first and last nonzero
\* columns differ, scanned from the far side
C3_Witness ==
    /\ EdgeCalled /\ edge = "left"
    /\ object_frame.shape = <<2, 2>>
    /\ NonzeroCols(object_frame, 0) = {}
    /\ NonzeroCols(object_frame, 1) = {0, 1}
    /\ Cell(object_frame, 1, 0) # Cell(object_frame, 1, 1)
    /\ result.status = "ok" /\ ~result.value[1].nan

\* C8: when no scan line of the frame holds a nonzero cell (the all-zero
\* frame), find_edge_mean for right, left, up and down collects no sample
\* and returns NaN, never 0 or another number.
C8_AllZeroIsNaN ==
    (EdgeCalled /\ edge \in EdgeTags /\ ScanLines(object_frame, edge) = {})
    => /\ outer_loop(object_frame, edge, intrinsics, 0) = <<>>
       /\ result = Ok(<<NaN>>)

C8_Witness ==
    /\ EdgeCalled /\ edge = "down"
    /\ object_frame.shape = <<2, 2>>
    /\ \A i \in Rows(object_frame), j \in Cols(object_frame) : Cell(object_frame, i, j) = 0
    /\ result.status = "ok" /\ result.value[1].nan

---------------------------------------------------------------------------
(* Properties of the tag dispatch, of average_z_frame and of               *)
(* calculate_pc_adjustments_by_frames                                      *)

\* C9: a call of find_edge_mean with an edge tag outside right, left, up,
\* down, and a call of average_z_frame or calculate_pc_adjustments_by_frames
\* with a shape tag outside flat, cylinder, raises: it returns no value and
\* leaves the frames as they were.
C9_ClosedDispatch ==
    [][(\/ called' = "find_edge_mean" /\ edge' \notin EdgeTags
        \/ /\ called' \in {"average_z_frame", "calculate_pc_adjustments_by_frames"}
           /\ shape' \notin ShapeTags)
       => /\ result'.status = "raise" /\ result'.value = <<>>
          /\ object_frame' = object_frame /\ captured_frame' = captured_frame]_vars

C9_Witness ==
    /\ called = "calculate_pc_adjustments_by_frames" /\ shape = "sphere"
    /\ Len(object_frame.shape) = 2 /\ ScanLines(object_frame, "up") # {}
    /\ result = Raise("Exception")

\* C2: for every 2-D frame F (all-zero rows, columns or frames included),
\* every intrinsics and every shape of flat, cylinder,
\* calculate_pc_adjustments_by_frames(F, F, intrinsics, shape) returns
\* (0, 0, 0): it neither raises nor returns an undefined component.
C2_SameFrameZeroShift ==
    (/\ called = "calculate_pc_adjustments_by_frames"
     /\ Len(object_frame.shape) = 2 /\ captured_frame = object_frame
     /\ shape \in ShapeTags)
    => result = Ok(ZeroShift)

\* What the code does for (F, F): a raise for cylinder; for flat the zero
\* vector when F has a nonzero cell and NaN in x and y when it has none.
SameFrameOutcome ==
    (/\ called = "calculate_pc_adjustments_by_frames"
     /\ Len(object_frame.shape) = 2 /\ captured_frame = object_frame)
    => /\ shape = "cylinder" => result = Raise("TypeError")
       /\ (shape = "flat" /\ ScanLines(object_frame, "up") # {}) => result = Ok(ZeroShift)
       /\ (shape = "flat" /\ ScanLines(object_frame, "up") = {}) => result = Ok(<<NaN, NaN, F(0)>>)

\* the cylinder rule of the claim: the rows with a nonzero cell in the left
\* half and one in the right half; each gives the cell midway between the
\* first nonzero column from the left and the first from the right
LeftHalf(f, i) == {j \in 0..(f.shape[2] \div 2 - 1) : Cell(f, i, j) # 0}
RightHalf(f, i) ==
    {j \in (f.shape[2] - f.shape[2] \div 2)..(f.shape[2] - 1) : Cell(f, i, j) # 0}
BothEdges(f) == {i \in Rows(f) : LeftHalf(f, i) # {} /\ RightHalf(f, i) # {}}
MidCell(f, i) == F(Cell(f, i, (SetMin(LeftHalf(f, i)) + SetMax(RightHalf(f, i))) \div 2))

\* C4: average_z_frame(frame, 'cylinder'), its two divisions read as floor
\* divisions, returns the mean, over the rows where both edges are found,
\* of the cell midway between the two edge columns; the other rows add
\* nothing.
C4_CylinderMean ==
    (called = "average_z_frame" /\ shape = "cylinder" /\ Len(object_frame.shape) = 2)
    => average_z_frame_floor_division(object_frame)
         = Ok(<<MeanOver([i \in BothEdges(object_frame) |-> MidCell(object_frame, i)],
                         BothEdges(object_frame))>>)

---------------------------------------------------------------------------
(* convert_pc_to_frame and generate_frame_flat_surface                     *)

\* np.zeros(shape=(rows, cols))
np_zeros(rows, cols) ==
    [shape |-> <<rows, cols>>, data |-> [i \in 1..rows |-> [j \in 1..cols |-> 0]]]

\* a whole-number depth as a frame cell (the depths drawn are whole numbers)
Depth(z) == z.n

\* numpy accepts the index k of an axis of length n when -n <= k < n
InBounds(k, n) == -n <= k /\ k < n
Wrap(k, n) == IF k < 0 THEN k + n ELSE k

\* the loop over the points from point k on; IndexError ends the call
RECURSIVE write_points(_, _, _, _)
write_points(frame, cloud, intr, k) ==
    IF k > Len(cloud.data) THEN Ok(<<frame>>)
    ELSE
      LET px == rs2_project_point_to_pixel(intr, cloud.data[k])
          i  == PyRound(px[2])
          j  == PyRound(px[1])
      IN  IF ~InBounds(i, frame.shape[1]) \/ ~InBounds(j, frame.shape[2])
          THEN Raise("IndexError")
          ELSE write_points(
                 [frame EXCEPT !.data[Wrap(i, frame.shape[1]) + 1][Wrap(j, frame.shape[2]) + 1]
                                  = Depth(cloud.data[k][3])],
                 cloud, intr, k + 1)

convert_pc_to_frame(cloud, intr) ==
    IF Len(cloud.shape) # 2 THEN Raise("AssertionError")
    ELSE IF cloud.shape[2] # 3 THEN Raise("AssertionError")
    ELSE write_points(np_zeros(intr.width, intr.height), cloud, intr, 1)

generate_frame_flat_surface(s, intr) ==
    LET px    == rs2_project_point_to_pixel(
                   intr, <<FDiv(s.width, F(2)), FDiv(s.height, F(2)), F(s.distance)>>)
        max_i == PyInt(PyMin(px[2], F(intr.height)))
        max_j == PyInt(PyMin(px[1], F(intr.width)))
    IN  Ok(<<[shape |-> <<intr.height, intr.width>>,
              data |-> [r \in 1..intr.height |-> [c \in 1..intr.width |->
                  IF /\ intr.height - max_i <= r - 1 /\ r - 1 < max_i
                     /\ intr.width - max_j <= c - 1 /\ c - 1 < max_j
                  THEN s.distance ELSE 0]]]>>)

---------------------------------------------------------------------------
(* Inputs and calls of the synthesizer specification                       *)

MaxRes == 3
MaxCoord == 2

SynthIntrinsics ==
    UNION {{[width |-> w, height |-> h, ppx |-> px, ppy |-> py, fx |-> f, fy |-> f] :
              px \in {Rat(w, 2), F(1)}, py \in {Rat(h, 2), F(0)}, f \in {F(1), F(2)}} :
           <<w, h>> \in (1..MaxRes) \X (1..MaxRes)}

Surfaces ==
    {[width |-> F(w), height |-> F(h), distance |-> d] :
       w \in {1, 2, 4}, h \in {1, 2, 4}, d \in {1, 2}}

PcPoints == {Pt(x, y, z) : x \in -1..MaxCoord, y \in -1..MaxCoord, z \in {1, 2}}

\* the empty cloud, the one-point clouds and some two-point clouds
PcClouds ==
    {Array(<<>>, 3)} \cup {Array(<<p>>, 3) : p \in PcPoints}
    \cup {Array(<<p, Pt(0, 0, 1)>>, 3) : p \in {q \in PcPoints : q[3] = F(2)}}

InitSynth ==
    /\ intrinsics \in SynthIntrinsics
    /\ surface = NoSurface /\ pc = NoArray
    /\ object_frame = NoArray /\ captured_frame = NoArray /\ edge = "" /\ shape = ""
    /\ PcsIdle /\ PoolIdle
    /\ called = "none" /\ result = NoResult

call_convert_pc_to_frame ==
    /\ called = "none"
    /\ \E cloud \in PcClouds :
         /\ pc' = cloud
         /\ result' = convert_pc_to_frame(cloud, intrinsics)
    /\ called' = "convert_pc_to_frame"
    /\ UNCHANGED <<object_pc, captured_pc, object_frame, captured_frame, intrinsics,
                   edge, shape, surface, workers, results, completed, pcs, saved>>

call_generate_frame_flat_surface ==
    /\ called = "none"
    /\ \E s \in Surfaces :
         /\ surface' = s
         /\ result' = generate_frame_flat_surface(s, intrinsics)
    /\ called' = "generate_frame_flat_surface"
    /\ UNCHANGED <<object_pc, captured_pc, object_frame, captured_frame, intrinsics,
                   edge, shape, pc, workers, results, completed, pcs, saved>>

NextSynth ==
    \/ call_convert_pc_to_frame
    \/ call_generate_frame_flat_surface

SpecSynth == InitSynth /\ [][NextSynth]_vars

---------------------------------------------------------------------------
(* Properties of the synthesizer                                           *)

Nonzero(f) == {ij \in Rows(f) \X Cols(f) : Cell(f, ij[1], ij[2]) # 0}

\* the pixel of the one point of the cloud pc
PointPixel == rs2_project_point_to_pixel(intrinsics, pc.data[1])

\* C6: for a one-point cloud whose point (x, y, z), z # 0, projects to
\* (u, v) with 0 <= round(u) < width and 0 <= round(v) < height (width and
\* height not necessarily equal), convert_pc_to_frame returns a frame whose
\* only nonzero cell is the one at row round(v), column round(u), and that
\* cell holds z.
C6_SinglePointFrame ==
    (/\ called = "convert_pc_to_frame"
     /\ pc.shape = <<1, 3>> /\ ~IsZero(pc.data[1][3])
     /\ 0 <= PyRound(PointPixel[1]) /\ PyRound(PointPixel[1]) < intrinsics.width
     /\ 0 <= PyRound(PointPixel[2]) /\ PyRound(PointPixel[2]) < intrinsics.height)
    => /\ result.status = "ok"
       /\ Nonzero(result.value[1]) = {<<PyRound(PointPixel[2]), PyRound(PointPixel[1])>>}
       /\ Cell(result.value[1], PyRound(PointPixel[2]), PyRound(PointPixel[1]))
            = Depth(pc.data[1][3])

\* the pixel extent of the surface: its corners (+-width/2, +-height/2,
\* distance) projected
HalfU == FMul(FDiv(FDiv(surface.width, F(2)), F(surface.distance)), intrinsics.fx)
HalfV == FMul(FDiv(FDiv(surface.height, F(2)), F(surface.distance)), intrinsics.fy)
CornerLeft == FSub(intrinsics.ppx, HalfU)
CornerRight == FAdd(intrinsics.ppx, HalfU)
CornerTop == FSub(intrinsics.ppy, HalfV)
CornerBottom == FAdd(intrinsics.ppy, HalfV)
WholePixels == \A c \in {CornerLeft, CornerRight, CornerTop, CornerBottom} : c.d = 1

Clamp(k, n) == IF k < 0 THEN 0 ELSE IF k > n THEN n ELSE k

\* C5: the frame of generate_frame_flat_surface has the dimensions (height,
\* width), its nonzero cells hold distance, and they fill exactly the
\* rectangle of the four projected corners clamped to the resolution, for
\* every intrinsics, an off-centre principal point included.  Stated for
\* the inputs whose corners fall on whole pixels.
C5_FlatSurfaceExtent ==
    (called = "generate_frame_flat_surface" /\ WholePixels)
    => /\ result.status = "ok"
       /\ result.value[1].shape = <<intrinsics.height, intrinsics.width>>
       /\ \A ij \in Nonzero(result.value[1]) :
            Cell(result.value[1], ij[1], ij[2]) = surface.distance
       /\ Nonzero(result.value[1])
            = {ij \in Rows(result.value[1]) \X Cols(result.value[1]) :
                 /\ Clamp(CornerTop.n, intrinsics.height) <= ij[1]
                 /\ ij[1] < Clamp(CornerBottom.n, intrinsics.height)
                 /\ Clamp(CornerLeft.n, intrinsics.width) <= ij[2]
                 /\ ij[2] < Clamp(CornerRight.n, intrinsics.width)}

\* the same with the principal point at the image centre: holds
FlatSurfaceExtentCentred ==
    (/\ intrinsics.ppx = Rat(intrinsics.width, 2)
     /\ intrinsics.ppy = Rat(intrinsics.height, 2))
    => C5_FlatSurfaceExtent

---------------------------------------------------------------------------
(* The driver of clean_up.py: pool.map over the cameras, np.concatenate,   *)
(* save_file                                                               *)

MaxCams == 3

\* abstract points; what generate_adapted_point_cloud returns depends on
\* the camera hardware
CameraClouds == {<<"p">>, <<"q">>, <<"p", "q">>}

Cams == 1..Len(workers)

\* np.concatenate(arrays): the rows of the arrays, one array after the other
RECURSIVE np_concatenate(_)
np_concatenate(arrays) ==
    IF arrays = <<>> THEN <<>> ELSE arrays[1] \o np_concatenate(Tail(arrays))

\* the list handed back in the order in which the tasks finished
pool_map_value_completion_order == [k \in Cams |-> results[completed[k]]]

\* the list pool.map hands back: the result of task c at position c
pool_map_value == [c \in Cams |-> results[c]]

InitPool ==
    /\ \E n \in 1..MaxCams :
         /\ workers = [c \in 1..n |-> "queued"]
         /\ results = [c \in 1..n |-> <<>>]
    /\ completed = <<>>
    /\ pcs = NoResult /\ saved = NoResult
    /\ object_frame = NoArray /\ captured_frame = NoArray
    /\ intrinsics = NoIntrinsics /\ edge = "" /\ shape = ""
    /\ PcsIdle /\ SynthIdle
    /\ called = "none" /\ result = NoResult

\* a pool process takes the task of camera c
worker_start(c) ==
    /\ pcs.status = "none" /\ workers[c] = "queued"
    /\ workers' = [workers EXCEPT ![c] = "running"]
    /\ UNCHANGED <<object_pc, captured_pc, object_frame, captured_frame, intrinsics,
                   edge, shape, surface, pc, called, result,
                   results, completed, pcs, saved>>

\* generate_adapted_point_cloud returns the cloud of camera c
worker_return(c) ==
    /\ pcs.status = "none" /\ workers[c] = "running"
    /\ \E cloud \in CameraClouds : results' = [results EXCEPT ![c] = cloud]
    /\ workers' = [workers EXCEPT ![c] = "done"]
    /\ completed' = Append(completed, c)
    /\ UNCHANGED <<object_pc, captured_pc, object_frame, captured_frame, intrinsics,
                   edge, shape, surface, pc, called, result, pcs, saved>>

\* generate_adapted_point_cloud raises (an unknown filter name, no points)
worker_raise(c) ==
    /\ pcs.status = "none" /\ workers[c] = "running"
    /\ workers' = [workers EXCEPT ![c] = "failed"]
    /\ completed' = Append(completed, c)
    /\ UNCHANGED <<object_pc, captured_pc, object_frame, captured_frame, intrinsics,
                   edge, shape, surface, pc, called, result, results, pcs, saved>>

\* pool.map returns once every task has returned
pool_map_return ==
    /\ pcs.status = "none"
    /\ \A c \in Cams : workers[c] = "done"
    /\ pcs' = Ok(pool_map_value)
    /\ UNCHANGED <<object_pc, captured_pc, object_frame, captured_frame, intrinsics,
                   edge, shape, surface, pc, called, result,
                   workers, results, completed, saved>>

\* pool.map re-raises the exception of a task; the with block ends the pool
pool_map_raise ==
    /\ pcs.status = "none"
    /\ \E c \in Cams : workers[c] = "failed"
    /\ pcs' = Raise("Exception")
    /\ UNCHANGED <<object_pc, captured_pc, object_frame, captured_frame, intrinsics,
                   edge, shape, surface, pc, called, result,
                   workers, results, completed, saved>>

save_file ==
    /\ pcs.status = "ok" /\ saved.status = "none"
    /\ saved' = Ok(np_concatenate(pcs.value))
    /\ UNCHANGED <<object_pc, captured_pc, object_frame, captured_frame, intrinsics,
                   edge, shape, surface, pc, called, result,
                   workers, results, completed, pcs>>

NextPool ==
    \/ \E c \in Cams : worker_start(c)
    \/ \E c \in Cams : worker_return(c)
    \/ \E c \in Cams : worker_raise(c)
    \/ pool_map_return
    \/ pool_map_raise
    \/ save_file

SpecPool == InitPool /\ [][NextPool]_vars

\* the clouds of cameras c, c + 1, ... one after the other
RECURSIVE InCameraOrder(_)
InCameraOrder(c) ==
    IF c > Len(results) THEN <<>> ELSE results[c] \o InCameraOrder(c + 1)

\* C10: there is one task per configured camera; pool.map hands back a list
\* and save_file is given a cloud only when every task has returned (no
\* partial result is combined or saved), and the cloud saved is the
\* per-camera clouds concatenated in camera order, whatever the order in
\* which the tasks finished.
C10_JoinAllCameraOrder ==
    /\ Len(results) = Len(workers)
    /\ Len(completed) = Cardinality({c \in Cams : workers[c] \in {"done", "failed"}})
    /\ (\E c \in Cams : workers[c] # "done") => (pcs.status # "ok" /\ saved.status = "none")
    /\ pcs.status = "ok" => Len(pcs.value) = Len(workers)
    /\ saved.status = "ok" => saved.value = InCameraOrder(1)
    /\ saved.status # "raise"

\* a cloud saved after the tasks finished in the reverse of camera order
C10_Witness ==
    /\ saved.status = "ok" /\ Len(workers) = 3
    /\ completed = <<3, 2, 1>>
    /\ results[1] = <<"p">> /\ results[3] = <<"q">>

=============================================================================
